---- MODULE Spec2Model ----
(***************************************************************************)
(* backupstore/util: the mount reconciler (CheckAndCleanupMountPoint,      *)
(* cleanupMount), the compression pipeline (CompressData,                  *)
(* DecompressAndVerify, GetChecksum) and the command executor (Execute,    *)
(* ExecuteWithCustomTimeout, execute), each as a state machine of its own  *)
(* specification: SpecMount, SpecCodec, SpecExec (FairSpecExec with the    *)
(* scheduler's fairness).                                                  *)
(***************************************************************************)
EXTENDS Integers, Sequences, FiniteSets, TLC

VARIABLES
    \* ---- CheckAndCleanupMountPoint (util.go:264-292)
    mpc,        \* position of the call: "idle", "L265", "L267", "L277", "L286", "returned", "panicked"
    Kind,       \* argument Kind
    mounter,    \* argument mounter: [id, force] (force: implements MounterForceUnmounter)
    mounted,    \* local mounted
    err,        \* local err (assigned at L265, re-assigned at L277)
    mnt,        \* local mnt.FilesystemType (NoMount until fetched)
    ret,        \* the returned pair <<bool, error>>
    probe,      \* what IsMountPoint returned: <<mounted, err>> (the record of the call)
    cleanups,   \* the cleanup calls made so far, each [fn, mounter, timeout, result]
    \* ---- CompressData / DecompressAndVerify (util.go:76-134)
    kpc,        \* "idle", "compressed", "verified"
    cmethod,    \* CompressData's method
    cdata,      \* CompressData's data
    cstream,    \* CompressData's returned stream (NoStream when nil)
    cerr,       \* CompressData's returned error
    dmethod,    \* DecompressAndVerify's method
    dsrc,       \* DecompressAndVerify's src
    dchecksum,  \* DecompressAndVerify's checksum
    dstream,    \* DecompressAndVerify's returned stream (NoStream when nil)
    derr,       \* DecompressAndVerify's returned error
    \* ---- execute (util.go:194-230)
    cpc,        \* caller: "idle", "L210", "L218", "blocked", "L222", "L225", "returned"
    wpc,        \* worker goroutine: "none", "L214", "L215", "exited"
    proc,       \* the child process: "unstarted", "running", "exit0", "exit1", "spawnfail", "killed"
    behav,      \* what the binary does when left alone: [spawn, chunks, exit]
    timeout,    \* the duration the context was made with
    ctx,        \* the context: "none", "active", "deadline", "canceled"
    done,       \* the done channel is closed
    buf,        \* the bytes CombinedOutput has captured so far
    output,     \* shared variable output
    xerr,       \* shared variable err of execute
    xret,       \* the return: [kind, out, output, err, worker, proc] (out: the string
                \* returned; output, err: what the error message quotes; worker, proc:
                \* where the worker and the process were when the call returned)
    first,      \* which came first: "none", "deadline", "finish0", "finishErr"
    racy        \* the caller read output/err while the worker had not yet written them

mvars == <<mpc, Kind, mounter, mounted, err, mnt, ret, probe, cleanups>>
kvars == <<kpc, cmethod, cdata, cstream, cerr, dmethod, dsrc, dchecksum, dstream, derr>>
xvars == <<cpc, wpc, proc, behav, timeout, ctx, done, buf, output, xerr, xret, first, racy>>
vars == <<mvars, kvars, xvars>>

-----------------------------------------------------------------------------
(* Errors are chains of messages, outermost first; the nil error is the     *)
(* empty chain.                                                             *)

Nil == <<>>

\* errors.Wrapf(err, format, ...): nil when err is nil, else err under a new message.
Wrapf(e, msg) == IF e = Nil THEN Nil ELSE <<msg>> \o e

\* The error at the bottom of a chain.
Cause(e) == IF e = Nil THEN Nil ELSE <<e[Len(e)]>>

\* strings.Contains(s, substr) over strings as sequences of characters.
Contains(s, substr) ==
    \E i \in 0..Len(s) :
        /\ i + Len(substr) <= Len(s)
        /\ \A j \in 1..Len(substr) : s[i + j] = substr[j]

-----------------------------------------------------------------------------
(* Mount reconciler                                                         *)

cmdTimeout == 60
forceCleanupMountTimeout == 30

NoMount == <<>>
NilMounter == [id |-> "nil", force |-> FALSE]
Mounters == {[id |-> "m", force |-> f] : f \in BOOLEAN}

Kinds == {<<"n", "f", "s">>, <<"c", "i", "f", "s">>}
FilesystemTypes ==
    {<<"n", "f", "s">>, <<"n", "f", "s", "4">>, <<"c", "i", "f", "s">>, <<"e", "x", "t", "4">>}

ProbeErrors == {Nil, <<"EIO">>}
GetMountErrors == {Nil, <<"ENOMOUNT">>}
CleanupError == <<"EBUSY">>

\* mounter.(mount.MounterForceUnmounter): the asserted value and ok.
ForceUnmounter(m) == IF m.force THEN <<m, TRUE>> ELSE <<NilMounter, FALSE>>

\* The mounter cleanupMount hands to mount.CleanupMountPoint on the plain tier:
\* forceUnmounter, the value of the failed assertion.
PlainMounter(m) == ForceUnmounter(m)[1]

\* cleanupMount: the library call it makes.
cleanupMount(m) ==
    IF ForceUnmounter(m)[2]
    THEN [fn |-> "CleanupMountWithForce", mounter |-> ForceUnmounter(m)[1],
          timeout |-> forceCleanupMountTimeout]
    ELSE [fn |-> "CleanupMountPoint", mounter |-> PlainMounter(m), timeout |-> 0]

\* What the library call can do: return nil, return an error, or, handed a nil
\* mount.Interface, panic at the first method call on it (it returns before that
\* call when the path does not exist or cannot be checked).
CleanupOutcomes(call) ==
    IF call.mounter = NilMounter THEN {"nil", "error", "panic"} ELSE {"nil", "error"}

MntErr(outcome) == IF outcome = "error" THEN CleanupError ELSE Nil

\* L268-269: the return when the cleanup of a corrupted mount point fails.
CorruptedReturnWrapsCleanup(e, mntErr) ==
    <<TRUE, Wrapf(mntErr, "Failed to unmount corrupted mountpoint")>>
CorruptedReturn(e, mntErr) == <<TRUE, Wrapf(e, "Failed to unmount corrupted mountpoint")>>

\* L287-288: the return when the cleanup of a stale mount point fails.
StaleReturn(e, mntErr) == <<TRUE, Wrapf(e, "Failed to unmount mountpoint")>>

\* L282: the live filesystem type is of the expected kind.
KindMatchesExactly(fstype, kind) == fstype = kind
KindMatches(fstype, kind) == Contains(fstype, kind)

\* L266: the probe error sends the call to the cleanup of the corrupted mount point.
ProbeFailedNever(e) == FALSE
ProbeFailed(e) == e # Nil

MountInit ==
    /\ mpc = "idle"
    /\ Kind = <<>>
    /\ mounter = NilMounter
    /\ mounted = FALSE
    /\ err = Nil
    /\ mnt = NoMount
    /\ ret = <<FALSE, Nil>>
    /\ probe = <<FALSE, Nil>>
    /\ cleanups = <<>>

\* The call: CheckAndCleanupMountPoint(Kind, mountDir, mounter, log).
CheckAndCleanupMountPoint ==
    /\ mpc = "idle"
    /\ \E k \in Kinds, m \in Mounters :
        /\ Kind' = k
        /\ mounter' = m
    /\ mpc' = "L265"
    /\ UNCHANGED <<mounted, err, mnt, ret, probe, cleanups, kvars, xvars>>

\* L273-275, and on to L277.
NotMountedOrOn(isMounted) ==
    IF ~isMounted
    THEN mpc' = "returned" /\ ret' = <<FALSE, Nil>>
    ELSE mpc' = "L277" /\ UNCHANGED ret

\* L265-266: mounted, err := mounter.IsMountPoint(mountDir).
IsMountPoint ==
    /\ mpc = "L265"
    /\ \E b \in BOOLEAN, e \in ProbeErrors :
        /\ mounted' = b
        /\ err' = e
        /\ probe' = <<b, e>>
        /\ IF ProbeFailed(e)
           THEN mpc' = "L267" /\ UNCHANGED ret
           ELSE NotMountedOrOn(b)
    /\ UNCHANGED <<Kind, mounter, mnt, cleanups, kvars, xvars>>

\* L267-271: the cleanup of a corrupted mount point.
CleanupCorrupted ==
    /\ mpc = "L267"
    /\ LET call == cleanupMount(mounter) IN
       \E o \in CleanupOutcomes(call) :
        /\ cleanups' = Append(cleanups, call @@ [result |-> o])
        /\ CASE o = "panic" -> mpc' = "panicked" /\ UNCHANGED ret
             [] o = "error" -> mpc' = "returned" /\ ret' = CorruptedReturn(err, MntErr(o))
             [] OTHER -> NotMountedOrOn(mounted)
    /\ UNCHANGED <<Kind, mounter, mounted, err, mnt, probe, kvars, xvars>>

\* L277-284: mnt, err := fs.GetMount(mountDir), and the comparison of its type.
GetMount ==
    /\ mpc = "L277"
    /\ \E e \in GetMountErrors, t \in FilesystemTypes :
        /\ err' = e
        /\ IF e # Nil
           THEN /\ mnt' = NoMount
                /\ mpc' = "returned"
                /\ ret' = <<TRUE, Wrapf(e, "Failed to get mount")>>
           ELSE /\ mnt' = t
                /\ IF KindMatches(t, Kind)
                   THEN mpc' = "returned" /\ ret' = <<TRUE, Nil>>
                   ELSE mpc' = "L286" /\ UNCHANGED ret
    /\ UNCHANGED <<Kind, mounter, mounted, probe, cleanups, kvars, xvars>>

\* L286-291: the cleanup of a stale mount point.
CleanupStale ==
    /\ mpc = "L286"
    /\ LET call == cleanupMount(mounter) IN
       \E o \in CleanupOutcomes(call) :
        /\ cleanups' = Append(cleanups, call @@ [result |-> o])
        /\ CASE o = "panic" -> mpc' = "panicked" /\ UNCHANGED ret
             [] o = "error" -> mpc' = "returned" /\ ret' = StaleReturn(err, MntErr(o))
             [] OTHER -> mpc' = "returned" /\ ret' = <<FALSE, Nil>>
    /\ UNCHANGED <<Kind, mounter, mounted, err, mnt, probe, kvars, xvars>>

MountNext ==
    \/ CheckAndCleanupMountPoint
    \/ IsMountPoint
    \/ CleanupCorrupted
    \/ GetMount
    \/ CleanupStale

-----------------------------------------------------------------------------
(* Compression pipeline                                                     *)

MaxLen == 2
PreservedChecksumLength == 64
Sum512Size == 64

DataBytes == {0, 1}
RECURSIVE SeqsUpTo(_)
SeqsUpTo(n) ==
    IF n = 0 THEN {<<>>}
    ELSE LET shorter == SeqsUpTo(n - 1) IN
         shorter \cup {Append(d, b) : d \in {x \in shorter : Len(x) = n - 1}, b \in DataBytes}
Data == SeqsUpTo(MaxLen)

Methods == {"none", "gzip", "zstd", "lz4", "bogus"}
\* The names registered in compression.Compressors.
Compressors == {"gzip", "zstd", "lz4"}

NoStream == <<>>
NewReader(bytes) == <<bytes>>
ReadAll(stream) == stream[1]

\* A running digest of the bytes, the stand-in for the compression function of
\* the hashes and checksums below.
RECURSIVE Mix(_, _)
Mix(h, d) == IF d = <<>> THEN h ELSE Mix((h * 131 + d[1] + 1) % 65521, Tail(d))

\* sha512.Sum512(data): Sum512Size bytes, every one depending on all of data.
Sum512(data) ==
    LET h == Mix(7, data) IN
    [i \in 1..Sum512Size |-> (h * i + 31 * i * i + Len(data)) % 256]

HexDigits ==
    <<"0", "1", "2", "3", "4", "5", "6", "7", "8", "9", "a", "b", "c", "d", "e", "f">>

\* hex.EncodeToString(bytes): two lowercase digits a byte.
EncodeToString(bytes) ==
    [i \in 1..(2 * Len(bytes)) |->
        LET b == bytes[(i + 1) \div 2] IN
        IF i % 2 = 1 THEN HexDigits[(b \div 16) + 1] ELSE HexDigits[(b % 16) + 1]]

\* GetChecksum: the first PreservedChecksumLength digits of the SHA-512 in hex.
GetChecksum(data) == SubSeq(EncodeToString(Sum512(data)), 1, PreservedChecksumLength)

\* ---- the codecs: what the writers emit and the readers accept.
\* Both frame a payload between a magic header and a trailer, so that the
\* compressed bytes are never the data and a damaged stream fails to decode.

RunLen(d) ==
    CHOOSE n \in 1..Len(d) :
        /\ \A i \in 1..n : d[i] = d[1]
        /\ n = Len(d) \/ d[n + 1] # d[1]

\* The payload of the gzip model: runs <<count, byte>>, ended by a zero count.
RECURSIVE Runs(_)
Runs(d) ==
    IF d = <<>> THEN <<0>>
    ELSE <<RunLen(d), d[1]>> \o Runs(SubSeq(d, RunLen(d) + 1, Len(d)))

\* Reads runs from position pos: [ok, block, next] (next: the position after the end mark).
RECURSIVE UnRuns(_, _, _)
UnRuns(src, pos, acc) ==
    IF pos > Len(src) THEN [ok |-> FALSE, block |-> acc, next |-> pos]
    ELSE IF src[pos] = 0 THEN [ok |-> TRUE, block |-> acc, next |-> pos + 1]
    ELSE IF pos + 1 > Len(src) THEN [ok |-> FALSE, block |-> acc, next |-> pos]
    ELSE UnRuns(src, pos + 2, acc \o [i \in 1..src[pos] |-> src[pos + 1]])

GzipHeader == <<31, 139, 8>>
Crc(data) == Mix(1, data) % 251

\* gzip.NewWriter(buffer); Write(data); Close().
GzipEncode(data) == GzipHeader \o Runs(data) \o <<Crc(data), Len(data)>>

\* gzip.NewReader(r) reads and checks the header.
GzipHeaderOK(src) == Len(src) >= Len(GzipHeader) /\ SubSeq(src, 1, Len(GzipHeader)) = GzipHeader

\* ioutil.ReadAll on a gzip reader: the payload, then the trailer's checks.
GzipReadAll(src) ==
    LET body == UnRuns(src, Len(GzipHeader) + 1, <<>>) IN
    IF ~body.ok \/ body.next + 1 > Len(src)
    THEN [err |-> <<"unexpected EOF">>, block |-> <<>>]
    ELSE IF src[body.next] # Crc(body.block) \/ src[body.next + 1] # Len(body.block)
    THEN [err |-> <<"gzip: invalid checksum">>, block |-> <<>>]
    ELSE [err |-> Nil, block |-> body.block]

Lz4Magic == <<4, 34, 77, 24>>

\* lz4.NewWriter(buffer); Write(data); Close(): magic, one length-prefixed
\* block when there is data, the end mark.
Lz4Encode(data) ==
    Lz4Magic \o (IF data = <<>> THEN <<>> ELSE <<Len(data)>> \o data) \o <<0>>

\* Reads length-prefixed blocks from position pos up to the end mark.
RECURSIVE Lz4Blocks(_, _, _)
Lz4Blocks(src, pos, acc) ==
    IF pos > Len(src) THEN [ok |-> FALSE, block |-> acc]
    ELSE IF src[pos] = 0 THEN [ok |-> TRUE, block |-> acc]
    ELSE IF pos + src[pos] > Len(src) THEN [ok |-> FALSE, block |-> acc]
    ELSE Lz4Blocks(src, pos + src[pos] + 1, acc \o SubSeq(src, pos + 1, pos + src[pos]))

\* ioutil.ReadAll on an lz4 reader (the reader checks the magic at its first
\* Read; an empty source is a clean end of file).
Lz4ReadAll(src) ==
    IF src = <<>> THEN [err |-> Nil, block |-> <<>>]
    ELSE IF Len(src) < Len(Lz4Magic) \/ SubSeq(src, 1, Len(Lz4Magic)) # Lz4Magic
    THEN [err |-> <<"lz4: bad magic number">>, block |-> <<>>]
    ELSE LET body == Lz4Blocks(src, Len(Lz4Magic) + 1, <<>>) IN
         IF body.ok THEN [err |-> Nil, block |-> body.block]
         ELSE [err |-> <<"unexpected EOF">>, block |-> <<>>]

\* ---- util.go

\* newCompressionWriter: the writer for a method, or the error.
newCompressionWriter(method) ==
    CASE method = "gzip" -> [err |-> Nil, codec |-> "gzip"]
      [] method = "lz4" -> [err |-> Nil, codec |-> "lz4"]
      [] OTHER -> [err |-> <<"unsupported compression method">>, codec |-> "nil"]

\* w.Write(data); w.Close(): what lands in the buffer.
WriterBytes(codec, data) == IF codec = "gzip" THEN GzipEncode(data) ELSE Lz4Encode(data)

\* CompressData(method, data): [stream, err].
CompressData(method, data) ==
    IF method = "none" THEN [stream |-> NewReader(data), err |-> Nil]
    ELSE LET w == newCompressionWriter(method) IN
         IF w.err # Nil THEN [stream |-> NoStream, err |-> w.err]
         ELSE [stream |-> NewReader(WriterBytes(w.codec, data)), err |-> Nil]

\* newDecompressionReader: the reader for a method, or the error.
newDecompressionReader(method, src) ==
    CASE method = "none" -> [err |-> Nil, codec |-> "none"]
      [] method = "gzip" ->
            IF GzipHeaderOK(src) THEN [err |-> Nil, codec |-> "gzip"]
            ELSE [err |-> <<"gzip: invalid header">>, codec |-> "nil"]
      [] method = "lz4" -> [err |-> Nil, codec |-> "lz4"]
      [] OTHER -> [err |-> <<"unsupported decompression method">>, codec |-> "nil"]

\* ioutil.ReadAll(r) on the reader newDecompressionReader returned.
ReaderReadAll(codec, src) ==
    CASE codec = "none" -> [err |-> Nil, block |-> src]
      [] codec = "gzip" -> GzipReadAll(src)
      [] OTHER -> Lz4ReadAll(src)

\* L106: the comparison of the block's checksum with the expected one.
ChecksumHasPrefix(block, checksum) ==
    /\ Len(checksum) <= PreservedChecksumLength
    /\ SubSeq(GetChecksum(block), 1, Len(checksum)) = checksum
ChecksumMatches(block, checksum) == GetChecksum(block) = checksum

\* L109: the stream handed back after verification.
VerifiedStream(block, src) == NewReader(block)

\* DecompressAndVerify(method, src, checksum): [stream, err].
DecompressAndVerify(method, src, checksum) ==
    LET r == newDecompressionReader(method, src) IN
    IF r.err # Nil THEN [stream |-> NoStream, err |-> r.err]
    ELSE LET read == ReaderReadAll(r.codec, src) IN
         IF read.err # Nil THEN [stream |-> NoStream, err |-> read.err]
         ELSE IF ~ChecksumMatches(read.block, checksum)
         THEN [stream |-> NoStream, err |-> <<"checksum verification failed for block">>]
         ELSE [stream |-> VerifiedStream(read.block, src), err |-> Nil]

\* The sources a caller may hand to DecompressAndVerify after a CompressData:
\* the stream it returned, that stream cut short, and that stream with one
\* byte changed.
Damaged(bytes) ==
    {SubSeq(bytes, 1, Len(bytes) - 1) : i \in {1} \cap DOMAIN bytes}
        \cup {[bytes EXCEPT ![i] = (bytes[i] + 1) % 256] : i \in DOMAIN bytes}

\* The checksums a caller may expect: that of the data, that of other data,
\* and a string that is no checksum.
OtherData == <<1, 0, 1>>
ExpectedChecksums(data) == {GetChecksum(data), GetChecksum(OtherData), <<>>}

CodecInit ==
    /\ kpc = "idle"
    /\ cmethod = "none"
    /\ cdata = <<>>
    /\ cstream = NoStream
    /\ cerr = Nil
    /\ dmethod = "none"
    /\ dsrc = <<>>
    /\ dchecksum = <<>>
    /\ dstream = NoStream
    /\ derr = Nil

\* A call of CompressData.
DoCompressData ==
    /\ kpc = "idle"
    /\ \E method \in Methods, data \in Data :
        LET r == CompressData(method, data) IN
        /\ cmethod' = method
        /\ cdata' = data
        /\ cstream' = r.stream
        /\ cerr' = r.err
    /\ kpc' = "compressed"
    /\ UNCHANGED <<dmethod, dsrc, dchecksum, dstream, derr, mvars, xvars>>

\* A call of DecompressAndVerify on what CompressData returned (or on a damaged copy).
DoDecompressAndVerify ==
    /\ kpc = "compressed"
    /\ cstream # NoStream
    /\ \E method \in Methods,
          src \in {ReadAll(cstream)} \cup Damaged(ReadAll(cstream)),
          checksum \in ExpectedChecksums(cdata) :
        LET r == DecompressAndVerify(method, src, checksum) IN
        /\ dmethod' = method
        /\ dsrc' = src
        /\ dchecksum' = checksum
        /\ dstream' = r.stream
        /\ derr' = r.err
    /\ kpc' = "verified"
    /\ UNCHANGED <<cmethod, cdata, cstream, cerr, mvars, xvars>>

CodecNext ==
    \/ DoCompressData
    \/ DoDecompressAndVerify

-----------------------------------------------------------------------------
(* Command executor                                                         *)

MaxOutput == 2

CustomTimeouts == {forceCleanupMountTimeout, 1}

\* What the binary does when nothing stops it: it cannot be spawned, or it
\* writes chunks of output and then exits with status 0 or 1, or never exits.
Behaviours ==
    {[spawn |-> FALSE, chunks |-> 0, exit |-> "spawnfail"]}
        \cup {[spawn |-> TRUE, chunks |-> n, exit |-> e] :
                n \in 0..MaxOutput, e \in {"exit0", "exit1", "never"}}

Ended == {"exit0", "exit1", "spawnfail", "killed"}

\* The error cmd.CombinedOutput returns for an ended process.
WaitErr(p, c) ==
    CASE p = "exit0" -> Nil
      [] p = "exit1" -> <<"exit status 1">>
      [] p = "killed" -> <<"signal: killed">>
      [] OTHER -> IF c = "active" THEN <<"executable file not found">>
                  ELSE <<"context deadline exceeded">>

ExecInit ==
    /\ cpc = "idle"
    /\ wpc = "none"
    /\ proc = "unstarted"
    /\ behav = [spawn |-> FALSE, chunks |-> 0, exit |-> "spawnfail"]
    /\ timeout = 0
    /\ ctx = "none"
    /\ done = FALSE
    /\ buf = <<>>
    /\ output = <<>>
    /\ xerr = Nil
    /\ xret = [kind |-> "none", out |-> <<>>, output |-> <<>>, err |-> Nil,
               worker |-> "none", proc |-> "unstarted"]
    /\ first = "none"
    /\ racy = FALSE

\* L195-197: Execute(binary, args), under the default timeout.
Execute ==
    /\ cpc = "idle"
    /\ \E b \in Behaviours : behav' = b
    /\ timeout' = cmdTimeout
    /\ ctx' = "active"
    /\ cpc' = "L210"
    /\ UNCHANGED <<wpc, proc, done, buf, output, xerr, xret, first, racy, mvars, kvars>>

\* L200-203: ExecuteWithCustomTimeout(binary, args, timeout).
ExecuteWithCustomTimeout ==
    /\ cpc = "idle"
    /\ \E b \in Behaviours : behav' = b
    /\ \E d \in CustomTimeouts : timeout' = d
    /\ ctx' = "active"
    /\ cpc' = "L210"
    /\ UNCHANGED <<wpc, proc, done, buf, output, xerr, xret, first, racy, mvars, kvars>>

\* L210-216: the command and the done channel are made, the worker is started.
GoWorker ==
    /\ cpc = "L210"
    /\ wpc' = "L214"
    /\ cpc' = "L218"
    /\ UNCHANGED <<proc, behav, timeout, ctx, done, buf, output, xerr, xret, first, racy,
                   mvars, kvars>>

\* The context's timer: the deadline passes. A caller blocked in the select is
\* woken on the ctx.Done() case.
Deadline ==
    /\ ctx = "active"
    /\ ctx' = "deadline"
    /\ first' = IF first = "none" THEN "deadline" ELSE first
    /\ cpc' = IF cpc = "blocked" THEN "L222" ELSE cpc
    /\ UNCHANGED <<wpc, proc, behav, timeout, done, buf, output, xerr, xret, racy, mvars, kvars>>

\* L214, cmd.Start inside CombinedOutput: it refuses when the context is
\* already done, fails when the binary cannot be spawned, else the process runs.
Start ==
    /\ wpc = "L214"
    /\ proc = "unstarted"
    /\ IF ctx # "active" \/ ~behav.spawn
       THEN /\ proc' = "spawnfail"
            /\ first' = IF first = "none" THEN "finishErr" ELSE first
       ELSE proc' = "running" /\ UNCHANGED first
    /\ UNCHANGED <<cpc, wpc, behav, timeout, ctx, done, buf, output, xerr, xret, racy,
                   mvars, kvars>>

\* The process writes a chunk of output, which CombinedOutput captures.
ProcWrite ==
    /\ proc = "running"
    /\ Len(buf) < behav.chunks
    /\ buf' = Append(buf, "o")
    /\ UNCHANGED <<cpc, wpc, proc, behav, timeout, ctx, done, output, xerr, xret, first, racy,
                   mvars, kvars>>

\* The process exits on its own.
ProcExit ==
    /\ proc = "running"
    /\ Len(buf) = behav.chunks
    /\ behav.exit # "never"
    /\ proc' = behav.exit
    /\ first' = IF first # "none" THEN first
                ELSE IF behav.exit = "exit0" THEN "finish0" ELSE "finishErr"
    /\ UNCHANGED <<cpc, wpc, behav, timeout, ctx, done, buf, output, xerr, xret, racy,
                   mvars, kvars>>

\* exec.CommandContext: the process is killed once the context is done.
ProcKill ==
    /\ proc = "running"
    /\ ctx \in {"deadline", "canceled"}
    /\ proc' = "killed"
    /\ UNCHANGED <<cpc, wpc, behav, timeout, ctx, done, buf, output, xerr, xret, first, racy,
                   mvars, kvars>>

\* L214: CombinedOutput returns and the worker assigns output and err.
CombinedOutput ==
    /\ wpc = "L214"
    /\ proc \in Ended
    /\ output' = buf
    /\ xerr' = WaitErr(proc, ctx)
    /\ wpc' = "L215"
    /\ UNCHANGED <<cpc, proc, behav, timeout, ctx, done, buf, xret, first, racy, mvars, kvars>>

\* L215: what the worker's signal on done needs before it can go through:
\* close(done) needs nothing.
SendNeedsReceiver(c) == c = "blocked"
SignalReady(c) == TRUE

\* L215: close(done). A caller blocked in the select is woken on the done case.
CloseDone ==
    /\ wpc = "L215"
    /\ SignalReady(cpc)
    /\ done' = TRUE
    /\ wpc' = "exited"
    /\ cpc' = IF cpc = "blocked" THEN "L225" ELSE cpc
    /\ UNCHANGED <<proc, behav, timeout, ctx, buf, output, xerr, xret, first, racy, mvars, kvars>>

\* L218-221: the cases of the select that can proceed when the caller reaches it.
ReadyCases(d, c) ==
    (IF d THEN {"L225"} ELSE {}) \cup (IF c # "active" THEN {"L222"} ELSE {})

\* L218: the caller reaches the select: one of the ready cases is taken (any
\* of them when both are ready), and with none it blocks.
Select ==
    /\ cpc = "L218"
    /\ IF ReadyCases(done, ctx) = {}
       THEN cpc' = "blocked"
       ELSE \E c \in ReadyCases(done, ctx) : cpc' = c
    /\ UNCHANGED <<wpc, proc, behav, timeout, ctx, done, buf, output, xerr, xret, first, racy,
                   mvars, kvars>>

\* defer cancel(): the context is canceled unless its deadline has passed.
Cancel(c) == IF c = "active" THEN "canceled" ELSE c

\* L222: the timeout error, quoting output and err as they are now.
ReturnTimeout ==
    /\ cpc = "L222"
    /\ xret' = [kind |-> "timeout executing", out |-> <<>>, output |-> output, err |-> xerr,
                worker |-> wpc, proc |-> proc]
    /\ racy' = (racy \/ wpc = "L214")
    /\ ctx' = Cancel(ctx)
    /\ cpc' = "returned"
    /\ UNCHANGED <<wpc, proc, behav, timeout, done, buf, output, xerr, first, mvars, kvars>>

\* L225-229: after done: the execution error, or the output.
ReturnDone ==
    /\ cpc = "L225"
    /\ xret' = IF xerr # Nil
               THEN [kind |-> "failed to execute", out |-> <<>>, output |-> output,
                     err |-> xerr, worker |-> wpc, proc |-> proc]
               ELSE [kind |-> "ok", out |-> output, output |-> <<>>, err |-> Nil,
                     worker |-> wpc, proc |-> proc]
    /\ racy' = (racy \/ wpc = "L214")
    /\ ctx' = Cancel(ctx)
    /\ cpc' = "returned"
    /\ UNCHANGED <<wpc, proc, behav, timeout, done, buf, output, xerr, first, mvars, kvars>>

ExecNext ==
    \/ Execute
    \/ ExecuteWithCustomTimeout
    \/ GoWorker
    \/ Deadline
    \/ Start
    \/ ProcWrite
    \/ ProcExit
    \/ ProcKill
    \/ CombinedOutput
    \/ CloseDone
    \/ Select
    \/ ReturnTimeout
    \/ ReturnDone

-----------------------------------------------------------------------------
Init == MountInit /\ CodecInit /\ ExecInit

SpecMount == Init /\ [][MountNext]_vars
SpecCodec == Init /\ [][CodecNext]_vars
SpecExec == Init /\ [][ExecNext]_vars

\* The scheduler runs every runnable goroutine, the timer fires, and the
\* operating system ends a process that exits or is killed.
ExecFairness ==
    /\ WF_vars(GoWorker)
    /\ WF_vars(Deadline)
    /\ WF_vars(Start)
    /\ WF_vars(ProcWrite)
    /\ WF_vars(ProcExit)
    /\ WF_vars(ProcKill)
    /\ WF_vars(CombinedOutput)
    /\ WF_vars(CloseDone)
    /\ WF_vars(Select)
    /\ WF_vars(ReturnTimeout)
    /\ WF_vars(ReturnDone)

FairSpecExec == SpecExec /\ ExecFairness

-----------------------------------------------------------------------------
(* Properties of the mount reconciler (SpecMount)                           *)

MountFinished == mpc \in {"returned", "panicked"}
AfterProbe == mpc \notin {"idle", "L265"}

\* C1, as stated: whenever the probe returned an error, the call returns a
\* non-nil error whose cause is the probe's error, whether the cleanup
\* succeeded or failed.
C1_ProbeErrorAlwaysSurfaced ==
    (mpc = "returned" /\ probe[2] # Nil) =>
        /\ Len(cleanups) >= 1
        /\ ret[2] # Nil
        /\ Cause(ret[2]) = probe[2]

\* C1, amended: whenever the probe returned an error, cleanup is attempted;
\* if that cleanup returns an error the call returns (true, e) with e non-nil
\* and caused by the probe's error, after that one cleanup; if that cleanup
\* returns nil the probe's error is dropped: the call goes on with the probe's
\* mounted value, returns (false, nil) when that is false, and never returns
\* the probe's error.
C1_ProbeErrorSurfacedOnCleanupFailure ==
    (probe[2] # Nil /\ mpc # "L267" /\ AfterProbe) =>
        /\ Len(cleanups) >= 1
        /\ cleanups[1].result = "error" =>
            /\ mpc = "returned"
            /\ Len(cleanups) = 1
            /\ ret[1] = TRUE
            /\ ret[2] # Nil
            /\ Cause(ret[2]) = probe[2]
        /\ (cleanups[1].result = "nil" /\ mpc = "returned") =>
            /\ Cause(ret[2]) # probe[2]
            /\ ~probe[1] => ret = <<FALSE, Nil>>

C1_Witness ==
    /\ mpc = "returned"
    /\ probe[2] # Nil
    /\ Len(cleanups) = 1
    /\ cleanups[1].result = "error"
    /\ ret[2] # Nil

\* C2, as stated: probe fine and mounted, type fetched and not of the expected
\* kind: a failed cleanup makes the call return (false, err) with err non-nil,
\* a successful one (false, nil).
C2_StaleCleanupFailureReported ==
    (/\ mpc = "returned"
     /\ probe = <<TRUE, Nil>>
     /\ mnt # NoMount
     /\ ~Contains(mnt, Kind)
     /\ Len(cleanups) = 1) =>
        /\ cleanups[1].result = "error" => (ret[1] = FALSE /\ ret[2] # Nil)
        /\ cleanups[1].result = "nil" => ret = <<FALSE, Nil>>

\* C4: after a probe without error, a path not mounted gives (false, nil) and a
\* path mounted with a type that contains the expected kind gives (true, nil),
\* and in both cases cleanup is never invoked.
C4_HealthyOrAbsentNoCleanup ==
    (probe[2] = Nil /\ AfterProbe) =>
        /\ ~probe[1] => (mpc = "returned" /\ ret = <<FALSE, Nil>> /\ cleanups = <<>>)
        /\ (probe[1] /\ mnt # NoMount /\ Contains(mnt, Kind)) =>
            (mpc = "returned" /\ ret = <<TRUE, Nil>> /\ cleanups = <<>>)

C4_Witness ==
    /\ mpc = "returned"
    /\ probe = <<TRUE, Nil>>
    /\ mnt # NoMount
    /\ mnt # Kind
    /\ Contains(mnt, Kind)
    /\ ret = <<TRUE, Nil>>

\* C5, as stated: mounted and the fetched type not of the expected kind:
\* cleanup is invoked exactly once in the call, whatever the probe's error.
C5_StaleCleanupExactlyOnce ==
    (MountFinished /\ probe[1] /\ mnt # NoMount /\ ~Contains(mnt, Kind)) =>
        Len(cleanups) = 1

\* C5, amended: mounted and the fetched type not of the expected kind: cleanup
\* is invoked exactly once in the call when the probe returned no error, and
\* exactly twice when it returned one (the cleanup of the corrupted mount
\* point, which returned nil, then the cleanup of the stale one).
C5_StaleCleanupOncePerCause ==
    (MountFinished /\ probe[1] /\ mnt # NoMount /\ ~Contains(mnt, Kind)) =>
        /\ probe[2] = Nil => Len(cleanups) = 1
        /\ probe[2] # Nil => (Len(cleanups) = 2 /\ cleanups[1].result = "nil")

C5_Witness ==
    /\ mpc = "returned"
    /\ probe = <<TRUE, Nil>>
    /\ mnt # NoMount
    /\ ~Contains(mnt, Kind)
    /\ Len(cleanups) = 1

\* C8: every cleanup runs one tier: forced cleanup with
\* forceCleanupMountTimeout (the shorter timeout) on a mounter that supports
\* forced unmounting, else plain cleanup, and in both on the mounter the
\* caller supplied.
C8_CleanupTierOnCallersMounter ==
    /\ forceCleanupMountTimeout < cmdTimeout
    /\ \A i \in DOMAIN cleanups :
        /\ cleanups[i].mounter = mounter
        /\ IF mounter.force
           THEN /\ cleanups[i].fn = "CleanupMountWithForce"
                /\ cleanups[i].timeout = forceCleanupMountTimeout
           ELSE cleanups[i].fn = "CleanupMountPoint"

-----------------------------------------------------------------------------
(* Properties of the compression pipeline (SpecCodec)                       *)

\* What decoding src under method gives: [err, block].
Decoded(method, src) ==
    LET r == newDecompressionReader(method, src) IN
    IF r.err # Nil THEN [err |-> r.err, block |-> <<>>] ELSE ReaderReadAll(r.codec, src)

RoundTrip ==
    /\ kpc = "verified"
    /\ dmethod = cmethod
    /\ dsrc = ReadAll(cstream)
    /\ dchecksum = GetChecksum(cdata)

\* C6, as stated: for every registered method and for "none", CompressData
\* returns a stream, and DecompressAndVerify of that stream under the same
\* method and the data's checksum returns a stream of the data.
C6_RoundTripEveryRegisteredMethod ==
    (kpc # "idle" /\ cmethod \in Compressors \cup {"none"}) =>
        /\ cerr = Nil
        /\ cstream # NoStream
        /\ RoundTrip => (derr = Nil /\ dstream # NoStream /\ ReadAll(dstream) = cdata)

\* C7: DecompressAndVerify returns a stream only with a nil error, of exactly
\* the decoded bytes, whose checksum is the expected one; an unsupported
\* method, a decode failure or a checksum mismatch gives an error and no stream.
C7_ReadAfterVerify ==
    kpc = "verified" =>
        LET d == Decoded(dmethod, dsrc) IN
        /\ (dstream = NoStream) <=> (derr # Nil)
        /\ dstream # NoStream =>
            /\ d.err = Nil
            /\ ReadAll(dstream) = d.block
            /\ GetChecksum(ReadAll(dstream)) = dchecksum
        /\ dmethod \notin {"none", "gzip", "lz4"} => derr # Nil
        /\ d.err # Nil => derr # Nil
        /\ (d.err = Nil /\ GetChecksum(d.block) # dchecksum) => derr # Nil

C7_Witness ==
    /\ kpc = "verified"
    /\ dmethod = "gzip"
    /\ dstream # NoStream
    /\ ReadAll(dstream) # <<>>
    /\ ReadAll(dstream) # dsrc

-----------------------------------------------------------------------------
(* Properties of the command executor (SpecExec, FairSpecExec)              *)

\* C3, as stated: a call returns the timeout error whenever the deadline
\* passed before the process finished on its own, and the execution error
\* whenever the process failed (to run or to spawn) before the deadline passed.
C3_TimeoutAndFailureNeverConfused ==
    cpc = "returned" =>
        /\ first = "deadline" => xret.kind = "timeout executing"
        /\ first = "finishErr" => xret.kind = "failed to execute"

\* C10, as stated: the caller never reads output and err while the worker has
\* yet to write them.
C10_ReadsOrderedAfterWorkersWrite == ~racy

\* C9: the timeout branch returns without waiting for the process, close(done)
\* never waits for the caller, and once the process has ended the worker
\* terminates.
C9_NoWorkerLeak ==
    /\ [](cpc = "L222" => ENABLED ReturnTimeout)
    /\ [](wpc = "L215" => ENABLED CloseDone)
    /\ (wpc # "none" /\ proc \in Ended) ~> (wpc = "exited")

C9_Witness ==
    /\ cpc = "returned"
    /\ xret.kind = "timeout executing"
    /\ xret.worker = "L214"
    /\ xret.proc = "running"
    /\ wpc = "exited"

====
